---- MODULE Spec2Model ----
(***************************************************************************)
(* Model of one turn of the deterministic planner graph                    *)
(* (app/agent/main_agent4): F01 normalizer, F02 planner, the fan-out       *)
(* conditional edge, F03 worker executors, F13 join/reduce and F14         *)
(* synthesizer, over the MainState of state.py.                            *)
(*                                                                         *)
(* Python values are represented as follows.                               *)
(*   dict              a function whose DOMAIN is the key set              *)
(*   list              a sequence                                          *)
(*   Optional[dict]    a sequence of length 0 (None) or 1 (the dict)       *)
(*   str / opaque data a string; Python None inside a dict is "None"       *)
(***************************************************************************)
EXTENDS Integers, Sequences, FiniteSets, TLC

VARIABLES
    pc,                   \* the graph node (or edge function) that runs next
    original_question,    \* MainState fields (state.py:123-143)
    question,
    conversation_history,
    sub_goals,
    completed_outputs,
    round,
    max_rounds,
    status,
    final_response,
    planner_reasoning,
    synthesis_inputs,
    worker_results,
    key_artifacts,        \* the "key_artifacts" entry F13 returns
    sends,                \* Send() payloads dispatched and not yet executed
    last_decision,        \* history: the LLM decision F02 has just obtained, until the edge has run
    last_reiterate,       \* history: the LLM outcome F01 has just obtained, until F02 has run
    menu,                 \* the proposals the planner's LLM draws from in this turn
    n_planner,            \* history: number of F02 invocations so far
    n_join                \* history: number of F13 invocations so far

vars == << pc, original_question, question, conversation_history, sub_goals,
           completed_outputs, round, max_rounds, status, final_response,
           planner_reasoning, synthesis_inputs, worker_results, key_artifacts,
           sends, last_decision, last_reiterate, menu, n_planner, n_join >>

-----------------------------------------------------------------------------
(* Bounds of the model.                                                    *)

MaxRoundsCap == 2
MaxSubGoals == 3
MaxBatch == 2

-----------------------------------------------------------------------------
(* Value encoding helpers.                                                 *)

None == "None"
EmptyDict == [k \in {} |-> None]
NoDict == << >>
SomeDict(d) == << d >>
OrEmpty(opt) == IF Len(opt) = 0 THEN EmptyDict ELSE opt[1]

DictPut(d, k, v) == [x \in (DOMAIN d) \cup {k} |-> IF x = k THEN v ELSE d[x]]
DictGet(d, k, default) == IF k \in DOMAIN d THEN d[k] ELSE default
DictMerge(d, e) == [x \in (DOMAIN d) \cup (DOMAIN e) |-> IF x \in DOMAIN e THEN e[x] ELSE d[x]]

SeqRange(s) == { s[i] : i \in 1..Len(s) }

RECURSIVE SeqFilterIdx(_, _, _)
SeqFilterIdx(s, keep, i) ==
    IF i > Len(s) THEN << >>
    ELSE IF i \in keep THEN << s[i] >> \o SeqFilterIdx(s, keep, i + 1)
    ELSE SeqFilterIdx(s, keep, i + 1)

NoError == [msg |-> None, id |-> -1, name |-> ""]
MkError(m, i, n) == [msg |-> m, id |-> i, name |-> n]

-----------------------------------------------------------------------------
(* state.py                                                                *)

\* variant: plain concatenation, as operator.add would do
worker_results_reducer_add(existing, update) == existing \o update

\* variant: the update replaces what is there
worker_results_reducer_overwrite(existing, update) == update

\* variant: the update is put in front of what is there
worker_results_reducer_prepend(existing, update) ==
    IF update = << >> THEN << >> ELSE update \o existing

worker_results_reducer(existing, update) ==
    IF update = << >> THEN << >> ELSE existing \o update

create_sub_goal(id, worker, goal_type, inputs, params, outputs) ==
    [ id |-> id, worker |-> worker, inputs |-> inputs, params |-> params,
      outputs |-> outputs, goal_type |-> goal_type, status |-> "pending",
      result |-> NoDict, error |-> NoError ]

create_worker_result(sub_goal_id, st, outputs, error) ==
    [ sub_goal_id |-> sub_goal_id, status |-> st, outputs |-> outputs, error |-> error,
      message |-> None ]

\* variant: failed sub-goals are offered for dispatch again
get_pending_sub_goals_or_failed(sgs) ==
    SeqFilterIdx(sgs, { i \in 1..Len(sgs) : sgs[i].status \in { "pending", "failed" } }, 1)

get_pending_sub_goals(sgs) ==
    SeqFilterIdx(sgs, { i \in 1..Len(sgs) : sgs[i].status = "pending" }, 1)

get_completed_deliverables(sgs) ==
    SeqFilterIdx(sgs, { i \in 1..Len(sgs) :
        sgs[i].goal_type = "deliverable" /\ sgs[i].status = "success" }, 1)

-----------------------------------------------------------------------------
(* worker_registry.py and the @worker_tool declarations of nodes/f04..f12, *)
(* in the import order of nodes/f03_worker_executor.py.                    *)

Capability(n, outs, gt, mem, mode) ==
    [ name |-> n, outputs |-> outs, goal_type |-> gt,
      memorable_slots |-> mem, synthesis_mode |-> mode ]

WORKER_REGISTRY == <<
    Capability("common_helpdesk", << "answer" >>, "deliverable", << >>, "hidden"),
    Capability("metadata_lookup", << "metadata_results", "value_results", "analysis_result" >>,
               "support", << "analysis_result" >>, "hidden"),
    Capability("es_query_gen",
               << "es_query", "intent", "query_summary", "ambiguity", "needs_clarification" >>,
               "support", << "es_query" >>, "hidden"),
    Capability("es_query_exec", << "es_results", "hit_count", "next_offset", "page_size" >>,
               "support", << "next_offset", "page_size" >>, "hidden"),
    Capability("page_query", << "page_results", "next_offset", "page_size", "es_query" >>,
               "support", << "es_query", "next_offset", "page_size" >>, "hidden"),
    Capability("clarify_question", << "clarification_message" >>, "deliverable", << >>, "hidden"),
    Capability("explain_metadata", << "explanation" >>, "deliverable", << >>, "hidden"),
    Capability("show_results", << "formatted_results" >>, "deliverable", << >>, "hidden"),
    Capability("analyze_results", << "analysis" >>, "deliverable", << >>, "narrative")
>>

RegistryNames == { WORKER_REGISTRY[i].name : i \in 1..Len(WORKER_REGISTRY) }

\* Optional[WorkerCapability] as a sequence of length 0 or 1
get_capability_by_name(name) ==
    LET hits == { i \in 1..Len(WORKER_REGISTRY) : WORKER_REGISTRY[i].name = name }
    IN  IF hits = {} THEN << >>
        ELSE << WORKER_REGISTRY[CHOOSE i \in hits : \A j \in hits : i <= j] >>

WORKER_MAP == RegistryNames

-----------------------------------------------------------------------------
(* nodes/f02_deterministic_planner.py                                      *)
(* A PlannedSubGoal is [worker, inputs, params, goal_type]; its inputs are *)
(* a sequence of [name, from_sub_goal, slot] in dict insertion order.      *)

Max(S) == CHOOSE m \in S : \A x \in S : x <= m

\* variant: the budget test off by one
budget_exceeded_late(current_round, max) == current_round > max + 1

\* variant: no budget test
budget_exceeded_never(current_round, max) == FALSE

\* the round budget test (f02:469)
budget_exceeded(current_round, max) == current_round > max

_next_sub_goal_id(sgs) ==
    IF sgs = << >> THEN 1 ELSE Max({ sgs[i].id : i \in 1..Len(sgs) }) + 1

registry_outputs(worker) ==
    LET cap == get_capability_by_name(worker)
    IN  IF cap = << >> THEN << >> ELSE cap[1].outputs

valid_ids(n_planned, id_start, existing, completed) ==
    { existing[i].id : i \in 1..Len(existing) }
        \cup { id_start + i : i \in 0..(n_planned - 1) }
        \cup DOMAIN completed

\* existing_outputs as a dict id -> set of slot names
existing_outputs(existing, completed) ==
    [ id \in { existing[i].id : i \in 1..Len(existing) } \cup DOMAIN completed |->
        IF id \in DOMAIN completed
        THEN DOMAIN completed[id]
        ELSE LET k == CHOOSE i \in 1..Len(existing) :
                        /\ existing[i].id = id
                        /\ \A j \in 1..Len(existing) : existing[j].id = id => j <= i
             IN  SeqRange(existing[k].outputs) ]

new_declared_outputs(planned, id_start) ==
    [ id \in { id_start + i : i \in 0..(Len(planned) - 1) } |->
        SeqRange(registry_outputs(planned[id - id_start + 1].worker)) ]

valid_slots(from_id, planned, id_start, existing, completed) ==
    IF from_id \in DOMAIN existing_outputs(existing, completed)
    THEN existing_outputs(existing, completed)[from_id]
    ELSE IF from_id \in DOMAIN new_declared_outputs(planned, id_start)
    THEN new_declared_outputs(planned, id_start)[from_id]
    ELSE {}

\* the slot check of one InputRef (f02:394)
slot_rejected(vs, slot) == vs # {} /\ slot \notin vs

\* the error of the first invalid InputRef of p.inputs from position k on, or NoError
RECURSIVE input_error(_, _, _, _, _, _)
input_error(ins, k, planned, id_start, existing, completed) ==
    IF k > Len(ins) THEN NoError
    ELSE IF ins[k].from_sub_goal \notin valid_ids(Len(planned), id_start, existing, completed)
    THEN MkError("Invalid InputRef: sub_goal does not exist", ins[k].from_sub_goal, "")
    ELSE IF slot_rejected(valid_slots(ins[k].from_sub_goal, planned, id_start, existing, completed),
                          ins[k].slot)
    THEN MkError("Invalid InputRef: slot not found in sub_goal", ins[k].from_sub_goal, ins[k].slot)
    ELSE input_error(ins, k + 1, planned, id_start, existing, completed)

inputs_dict(ins) ==
    [ n \in { ins[k].name : k \in 1..Len(ins) } |->
        LET k == CHOOSE j \in 1..Len(ins) :
                    ins[j].name = n /\ \A l \in 1..Len(ins) : ins[l].name = n => l <= j
        IN  [ from_sub_goal |-> ins[k].from_sub_goal, slot |-> ins[k].slot ] ]

\* the SubGoal built for planned[i] (f02:372-428)
converted_sub_goal(i, planned, id_start, existing, completed) ==
    LET p   == planned[i]
        err == input_error(p.inputs, 1, planned, id_start, existing, completed)
    IN  IF err # NoError
        THEN [ create_sub_goal(id_start + i - 1, p.worker, p.goal_type, EmptyDict,
                               p.params, registry_outputs(p.worker))
                 EXCEPT !.status = "failed", !.error = err ]
        ELSE create_sub_goal(id_start + i - 1, p.worker, p.goal_type, inputs_dict(p.inputs),
                             p.params, registry_outputs(p.worker))

\* result + failed_sub_goals (f02:431)
_convert_planned_sub_goals(planned, id_start, existing, completed) ==
    LET all == [ i \in 1..Len(planned) |->
                    converted_sub_goal(i, planned, id_start, existing, completed) ]
    IN  SeqFilterIdx(all, { i \in 1..Len(all) : all[i].status # "failed" }, 1)
          \o SeqFilterIdx(all, { i \in 1..Len(all) : all[i].status = "failed" }, 1)

\* variant: the new sub-goals are put in front of the plan
appended_sub_goals_in_front(existing, new_sub_goals) == new_sub_goals \o existing

\* state["sub_goals"] + new_sub_goals (f02:545)
appended_sub_goals(existing, new_sub_goals) == existing \o new_sub_goals

\* variant: an empty batch is dispatched like any other
no_sub_goals_planned_never(decision) == FALSE

\* `not decision.sub_goals` of the continue branch (f02:517)
no_sub_goals_planned(decision) == decision.sub_goals = << >>

\* variant: a reference is kept as soon as its sub-goal has completed
validated_synthesis_inputs_ids_only(proposed, completed) ==
    [ n \in { m \in DOMAIN proposed : proposed[m].from_sub_goal \in DOMAIN completed } |->
        proposed[n] ]

\* validated_inputs of the done branch (f02:555-567); proposed is name -> InputRef
validated_synthesis_inputs(proposed, completed) ==
    [ n \in { m \in DOMAIN proposed :
                /\ proposed[m].from_sub_goal \in DOMAIN completed
                /\ proposed[m].slot \in DOMAIN completed[proposed[m].from_sub_goal] } |->
        proposed[n] ]

-----------------------------------------------------------------------------
(* graph.py: the fan-out conditional edge                                  *)

_is_sub_goal_ready(sg, completed) ==
    \A n \in DOMAIN sg.inputs :
        /\ sg.inputs[n].from_sub_goal \in DOMAIN completed
        /\ sg.inputs[n].slot \in DOMAIN completed[sg.inputs[n].from_sub_goal]

\* variant: the resolved values are filed under the slot they were read from
_hydrate_worker_input_by_slot(sg, completed) ==
    [ sub_goal |-> sg,
      resolved_inputs |-> [ s \in { sg.inputs[n].slot : n \in DOMAIN sg.inputs } |->
            LET n == CHOOSE m \in DOMAIN sg.inputs : sg.inputs[m].slot = s
            IN  completed[sg.inputs[n].from_sub_goal][s] ] ]

_hydrate_worker_input(sg, completed) ==
    [ sub_goal |-> sg,
      resolved_inputs |-> [ n \in DOMAIN sg.inputs |->
            completed[sg.inputs[n].from_sub_goal][sg.inputs[n].slot] ] ]

\* variant: dispatch only when every pending sub-goal is ready
ready_sends_all_or_nothing(sgs, completed) ==
    LET pending == get_pending_sub_goals(sgs)
    IN  IF \A i \in 1..Len(pending) : _is_sub_goal_ready(pending[i], completed)
        THEN [ i \in 1..Len(pending) |-> _hydrate_worker_input(pending[i], completed) ]
        ELSE << >>

\* the list of Send() payloads built in route_after_planner (graph.py:105-114)
ready_sends(sgs, completed) ==
    LET pending == get_pending_sub_goals(sgs)
        ready   == SeqFilterIdx(pending,
                       { i \in 1..Len(pending) : _is_sub_goal_ready(pending[i], completed) }, 1)
    IN  [ i \in 1..Len(ready) |-> _hydrate_worker_input(ready[i], completed) ]

\* variant: a failed turn is handed to the synthesizer for an apology
route_target_failed_to_synthesizer(st, out) ==
    IF st = "executing"
    THEN IF out = << >> THEN "f13_join_reduce" ELSE "f03_worker_executor"
    ELSE IF st \in { "done", "failed" } THEN "f14_synthesizer"
    ELSE "END"

\* variant: a round with nothing to dispatch ends the turn
route_target_end_when_idle(st, out) ==
    IF st = "executing"
    THEN IF out = << >> THEN "END" ELSE "f03_worker_executor"
    ELSE IF st = "done" THEN "f14_synthesizer"
    ELSE "END"

\* variant: whatever is not executing goes to the synthesizer
route_target_synthesize_unless_executing(st, out) ==
    IF st = "executing"
    THEN IF out = << >> THEN "f13_join_reduce" ELSE "f03_worker_executor"
    ELSE "f14_synthesizer"

\* the node route_after_planner leads to; out is the list of Send() payloads
\* (graph.py:96-129)
route_target(st, out) ==
    IF st = "executing"
    THEN IF out = << >> THEN "f13_join_reduce" ELSE "f03_worker_executor"
    ELSE IF st = "done" THEN "f14_synthesizer"
    ELSE "END"

-----------------------------------------------------------------------------
(* nodes/f04..f12: what a worker body may return for a WorkerInput.        *)
(* Every body reports sub_goal["id"] as sub_goal_id; the produced values   *)
(* are opaque strings.                                                     *)

QueryValues == { "Q2" }
DEFAULT_PAGE_SIZE == "20"

\* the workers whose body is taken to let an exception escape
RaisingWorkers == { "common_helpdesk" }

\* es_query = resolved.get("es_query") or params.get("es_query")  (f07:59, f08:61)
input_es_query(wi) ==
    LET r == DictGet(wi.resolved_inputs, "es_query", None)
    IN  IF r # None THEN r ELSE DictGet(wi.sub_goal.params, "es_query", None)

worker_success_outputs(wi) ==
    LET w == wi.sub_goal.worker
    IN  CASE w = "common_helpdesk"  -> { [answer |-> "answer text"] }
          [] w = "metadata_lookup"  -> { [metadata_results |-> "metadata", analysis_result |-> "analysis_result"] }
          [] w = "es_query_gen"     -> { [es_query |-> q, intent |-> "intent text", needs_clarification |-> "False"]
                                            : q \in QueryValues }
          [] w = "es_query_exec"    -> IF input_es_query(wi) = None THEN {}
                                       ELSE { [es_results |-> "es response", hit_count |-> "hits",
                                               next_offset |-> DEFAULT_PAGE_SIZE, page_size |-> DEFAULT_PAGE_SIZE] }
          [] w = "page_query"       -> IF input_es_query(wi) = None THEN {}
                                       ELSE { [page_results |-> "page", next_offset |-> "next", page_size |-> DEFAULT_PAGE_SIZE,
                                               es_query |-> input_es_query(wi)] }
          [] w = "clarify_question" -> { [clarification_message |-> "clarification"] }
          [] w = "explain_metadata" -> { [explanation |-> "explanation"] }
          [] w = "show_results"     -> IF DictGet(wi.resolved_inputs, "es_results", None) = None
                                          /\ DictGet(wi.resolved_inputs, "page_results", None) = None
                                       THEN {}
                                       ELSE { [formatted_results |-> "rows"] }
          [] w = "analyze_results"  -> IF DictGet(wi.resolved_inputs, "es_results", None) = None
                                          /\ DictGet(wi.resolved_inputs, "page_results", None) = None
                                       THEN {}
                                       ELSE { [analysis |-> "analysis"] }
          [] OTHER                  -> {}

\* the outcomes of worker.ainvoke(worker_input): a returned WorkerResult, or an exception
worker_outcomes(wi) ==
    { [ raised |-> FALSE,
        result |-> [ create_worker_result(wi.sub_goal.id, "success", o, NoError)
                        EXCEPT !.message = "ok" ] ] : o \in worker_success_outputs(wi) }
    \cup
    { [ raised |-> FALSE,
        result |-> create_worker_result(wi.sub_goal.id, "failed", EmptyDict,
                                        MkError("worker failed", wi.sub_goal.id, wi.sub_goal.worker)) ] }
    \cup
    ( IF wi.sub_goal.worker \in RaisingWorkers
      THEN { [ raised |-> TRUE,
               result |-> create_worker_result(-1, "failed", EmptyDict, NoError) ] }
      ELSE {} )

-----------------------------------------------------------------------------
(* nodes/f03_worker_executor.py                                            *)

\* variant: a returned result is rebuilt from its id, status, outputs and error
f03_result_rebuilt(wi, outcome) ==
    LET sub_goal_id == wi.sub_goal.id
        worker_name == wi.sub_goal.worker
    IN  IF worker_name = ""
        THEN create_worker_result(sub_goal_id, "failed", EmptyDict,
                                  MkError("No worker specified in sub_goal", sub_goal_id, ""))
        ELSE IF worker_name \notin WORKER_MAP
        THEN create_worker_result(sub_goal_id, "failed", EmptyDict,
                                  MkError("Unknown worker", sub_goal_id, worker_name))
        ELSE IF outcome.raised
        THEN create_worker_result(sub_goal_id, "failed", EmptyDict,
                                  MkError("Worker execution failed", sub_goal_id, worker_name))
        ELSE create_worker_result(outcome.result.sub_goal_id, outcome.result.status,
                                  outcome.result.outputs, outcome.result.error)

\* variant: the exception branch reports the placeholder id
f03_result_placeholder_id(wi, outcome) ==
    LET sub_goal_id == wi.sub_goal.id
        worker_name == wi.sub_goal.worker
    IN  IF worker_name = ""
        THEN create_worker_result(sub_goal_id, "failed", EmptyDict,
                                  MkError("No worker specified in sub_goal", sub_goal_id, ""))
        ELSE IF worker_name \notin WORKER_MAP
        THEN create_worker_result(sub_goal_id, "failed", EmptyDict,
                                  MkError("Unknown worker", sub_goal_id, worker_name))
        ELSE IF outcome.raised
        THEN create_worker_result(-1, "failed", EmptyDict,
                                  MkError("Worker execution failed", -1, worker_name))
        ELSE outcome.result

\* the single WorkerResult the executor contributes
f03_result(wi, outcome) ==
    LET sub_goal_id == wi.sub_goal.id
        worker_name == wi.sub_goal.worker
    IN  IF worker_name = ""
        THEN create_worker_result(sub_goal_id, "failed", EmptyDict,
                                  MkError("No worker specified in sub_goal", sub_goal_id, ""))
        ELSE IF worker_name \notin WORKER_MAP
        THEN create_worker_result(sub_goal_id, "failed", EmptyDict,
                                  MkError("Unknown worker", sub_goal_id, worker_name))
        ELSE IF outcome.raised
        THEN create_worker_result(sub_goal_id, "failed", EmptyDict,
                                  MkError("Worker execution failed", sub_goal_id, worker_name))
        ELSE outcome.result

-----------------------------------------------------------------------------
(* nodes/f13_join_reduce.py                                                *)

\* results_by_id.get(id): the last result carrying that id, as an Optional
results_by_id(results, id) ==
    LET hits == { i \in 1..Len(results) : results[i].sub_goal_id = id }
    IN  IF hits = {} THEN << >> ELSE << results[Max(hits)] >>

\* variant: a sub-goal without a result in this round is put back to pending
overlay_sub_goal_reset(sg, results) ==
    LET r == results_by_id(results, sg.id)
    IN  IF r # << >>
        THEN [ sg EXCEPT !.status = r[1].status,
                         !.result = SomeDict(r[1].outputs),
                         !.error  = r[1].error ]
        ELSE [ sg EXCEPT !.status = "pending" ]

\* variant: the status and error are taken from the result, the outputs are not
overlay_sub_goal_status_only(sg, results) ==
    LET r == results_by_id(results, sg.id)
    IN  IF r # << >>
        THEN [ sg EXCEPT !.status = r[1].status, !.error = r[1].error ]
        ELSE sg

overlay_sub_goal(sg, results) ==
    LET r == results_by_id(results, sg.id)
    IN  IF r # << >>
        THEN [ sg EXCEPT !.status = r[1].status,
                         !.result = SomeDict(r[1].outputs),
                         !.error  = r[1].error ]
        ELSE sg

\* variant: the sub-goals that got a result are moved behind the others
join_sub_goals_updated_last(sgs, results) ==
    LET hit(i) == results_by_id(results, sgs[i].id) # << >>
        all == [ i \in 1..Len(sgs) |-> overlay_sub_goal(sgs[i], results) ]
    IN  SeqFilterIdx(all, { i \in 1..Len(sgs) : ~ hit(i) }, 1)
        \o SeqFilterIdx(all, { i \in 1..Len(sgs) : hit(i) }, 1)

join_sub_goals(sgs, results) ==
    [ i \in 1..Len(sgs) |-> overlay_sub_goal(sgs[i], results) ]

\* variant: outputs stored whatever the result's status
RECURSIVE join_completed_store_all(_, _, _)
join_completed_store_all(completed, results, k) ==
    IF k > Len(results) THEN completed
    ELSE join_completed_store_all(
            DictPut(completed, results[k].sub_goal_id, results[k].outputs), results, k + 1)

\* variant: the loop stops at the first result that is not a success
RECURSIVE join_completed_break(_, _, _)
join_completed_break(completed, results, k) ==
    IF k > Len(results) \/ results[k].status # "success" THEN completed
    ELSE join_completed_break(
            DictPut(completed, results[k].sub_goal_id, results[k].outputs), results, k + 1)

\* variant: new_completed starts again from each successful result
RECURSIVE join_completed_only_new(_, _, _)
join_completed_only_new(completed, results, k) ==
    IF k > Len(results) THEN completed
    ELSE join_completed_only_new(
            IF results[k].status = "success"
            THEN DictPut(EmptyDict, results[k].sub_goal_id, results[k].outputs)
            ELSE completed,
            results, k + 1)

\* new_completed after the results from position k on are stored (f13:90-95)
RECURSIVE join_completed(_, _, _)
join_completed(completed, results, k) ==
    IF k > Len(results) THEN completed
    ELSE join_completed(
            IF results[k].status = "success"
            THEN DictPut(completed, results[k].sub_goal_id, results[k].outputs)
            ELSE completed,
            results, k + 1)

\* variant: the early return for no results leaves round alone
join_round_skip_empty(results, current_round) ==
    IF results = << >> THEN current_round ELSE current_round + 1

\* "round": current_round + 1, in both branches (f13:62, f13:113)
join_round(results, current_round) == current_round + 1

\* a dict keyed by sub-goal id built from the sub-goal list (last entry wins)
by_id(sgs, id) ==
    LET hits == { i \in 1..Len(sgs) : sgs[i].id = id }
    IN  IF hits = {} THEN << >> ELSE << sgs[Max(hits)] >>

worker_by_id(sgs, id) == IF by_id(sgs, id) = << >> THEN "" ELSE by_id(sgs, id)[1].worker
params_by_id(sgs, id) == IF by_id(sgs, id) = << >> THEN EmptyDict ELSE by_id(sgs, id)[1].params

\* first pass (f13:157-167): ids of successful es_query_gen results that carry es_query
es_query_ids(results, sgs) ==
    { results[i].sub_goal_id : i \in { j \in 1..Len(results) :
        /\ results[j].status = "success"
        /\ worker_by_id(sgs, results[j].sub_goal_id) = "es_query_gen"
        /\ "es_query" \in DOMAIN results[j].outputs } }

es_query_by_id(results, sgs, id) ==
    LET hits == { j \in 1..Len(results) :
                    /\ results[j].status = "success"
                    /\ results[j].sub_goal_id = id
                    /\ worker_by_id(sgs, id) = "es_query_gen"
                    /\ "es_query" \in DOMAIN results[j].outputs }
    IN  results[Max(hits)].outputs

memorable(worker_name) ==
    LET cap == get_capability_by_name(worker_name)
    IN  IF cap = << >> THEN << >> ELSE cap[1].memorable_slots

KeyArtifact(type, sub_goal_id, turn_id, intent, slots) ==
    [ type |-> type, sub_goal_id |-> sub_goal_id, turn_id |-> turn_id,
      intent |-> intent, slots |-> slots ]

\* index of the first artifact the exec result merges into, or 0 (f13:207-212)
bundle_target(artifacts, bundles_with) ==
    LET hits == { i \in 1..Len(artifacts) :
                    artifacts[i].sub_goal_id = bundles_with /\ artifacts[i].type = "es_query" }
    IN  IF hits = {} THEN 0 ELSE CHOOSE i \in hits : \A j \in hits : i <= j

\* one iteration of the second pass (f13:170-278)
artifact_step(artifacts, result, results, sgs, turn_id, completed) ==
    LET worker_name  == worker_by_id(sgs, result.sub_goal_id)
        outputs      == result.outputs
        params       == params_by_id(sgs, result.sub_goal_id)
        bundles_with == DictGet(params, "bundles_with_sub_goal", 0)
        paging       == [ next_offset |-> DictGet(outputs, "next_offset", None),
                          page_size   |-> DictGet(outputs, "page_size", None) ]
    IN  IF result.status # "success" \/ worker_name = "" \/ memorable(worker_name) = << >>
        THEN artifacts
        ELSE CASE worker_name = "es_query_gen" ->
                    Append(artifacts, KeyArtifact("es_query", result.sub_goal_id, turn_id,
                        DictGet(outputs, "intent", "query from sub_goal"),
                        [ es_query |-> DictGet(outputs, "es_query", "{}") ]))
               [] worker_name = "es_query_exec" ->
                    IF bundles_with # 0 /\ bundles_with \in es_query_ids(results, sgs)
                    THEN LET t == bundle_target(artifacts, bundles_with)
                         IN  IF t # 0
                             THEN [ artifacts EXCEPT ![t].slots = DictMerge(@, paging) ]
                             ELSE Append(artifacts, KeyArtifact("es_query", result.sub_goal_id, turn_id,
                                    "query execution from sub_goal",
                                    DictMerge([ es_query |-> DictGet(es_query_by_id(results, sgs, bundles_with),
                                                                     "es_query", "{}") ], paging)))
                    ELSE Append(artifacts, KeyArtifact("es_query", result.sub_goal_id, turn_id,
                            "query execution from sub_goal",
                            DictMerge([ es_query |->
                                          IF bundles_with # 0 /\ bundles_with \in DOMAIN completed
                                          THEN DictGet(completed[bundles_with], "es_query", None)
                                          ELSE None ], paging)))
               [] worker_name = "page_query" ->
                    Append(artifacts, KeyArtifact("es_query", result.sub_goal_id, turn_id,
                        "pagination continuation from sub_goal",
                        DictMerge([ es_query |-> DictGet(outputs, "es_query", None) ], paging)))
               [] worker_name = "metadata_lookup" ->
                    Append(artifacts, KeyArtifact("analysis_result", result.sub_goal_id, turn_id,
                        "entity resolution",
                        [ analysis_result |-> DictGet(outputs, "analysis_result", "{}") ]))
               [] OTHER -> artifacts

RECURSIVE artifact_pass(_, _, _, _, _, _)
artifact_pass(artifacts, k, results, sgs, turn_id, completed) ==
    IF k > Len(results) THEN artifacts
    ELSE artifact_pass(artifact_step(artifacts, results[k], results, sgs, turn_id, completed),
                       k + 1, results, sgs, turn_id, completed)

_build_key_artifacts(results, sgs, turn_id, completed) ==
    artifact_pass(<< >>, 1, results, sgs, turn_id, completed)

-----------------------------------------------------------------------------
(* nodes/f01_reiterate_intention.py                                        *)

\* key_artifacts of a turn, None and [] alike (f01:174-176)
turn_artifacts(turn) == turn.key_artifacts

\* slots of the first es_query artifact of the turns k, k-1, ..., 1; Optional
RECURSIVE find_prior_from(_, _)
find_prior_from(history, k) ==
    IF k = 0 THEN << >>
    ELSE LET arts == turn_artifacts(history[k])
             hits == { i \in 1..Len(arts) : arts[i].type = "es_query" }
         IN  IF hits # {}
             THEN << arts[CHOOSE i \in hits : \A j \in hits : i <= j].slots >>
             ELSE find_prior_from(history, k - 1)

\* variant: the scan starts at the oldest turn and stops there
_find_prior_agent_query_oldest(history) ==
    find_prior_from(history, IF history = << >> THEN 0 ELSE 1)

_find_prior_agent_query(history) == find_prior_from(history, Len(history))

\* variant: the restated goal is used as it is
restated_question_raw(llm, q) == llm.main_goal

\* main_goal, or the question when the stripped main_goal is empty (f01:238-240)
restated_question(llm, q) == IF llm.main_goal = "" THEN q ELSE llm.main_goal

\* completed_outputs_0 built from the structured LLM result (f01:244-265)
completed_outputs_0(llm, history) ==
    LET c1 == IF llm.user_query_text # None
              THEN [ user_es_query |-> llm.user_query_text ] ELSE EmptyDict
        prior == _find_prior_agent_query(history)
    IN  IF llm.references_prior_results /\ prior # << >> /\ prior[1] # EmptyDict
        THEN DictMerge(c1, [ prior_es_query    |-> DictGet(prior[1], "es_query", None),
                             prior_next_offset |-> DictGet(prior[1], "next_offset", None),
                             prior_page_size   |-> DictGet(prior[1], "page_size", None) ])
        ELSE c1

-----------------------------------------------------------------------------
(* nodes/f14_synthesizer.py                                                *)

PassthroughKeys == << "answer", "formatted_results", "analysis",
                      "clarification_message", "explanation" >>

\* the first passthrough key present in outputs, or None (f14:125-130)
deliverable_key(outputs) ==
    LET hits == { i \in 1..Len(PassthroughKeys) : PassthroughKeys[i] \in DOMAIN outputs }
    IN  IF hits = {} THEN None ELSE PassthroughKeys[CHOOSE i \in hits : \A j \in hits : i <= j]

\* variant: every worker is treated as a narrative one
synthesis_mode_all_narrative(worker_name) == "narrative"

synthesis_mode(worker_name) ==
    LET cap == get_capability_by_name(worker_name)
    IN  IF cap = << >> THEN "hidden" ELSE cap[1].synthesis_mode

\* narrative_outputs / display_outputs (f14:113-149), as sequences of [worker, key, value]
collected_outputs(sgs, completed, mode) ==
    LET dels == get_completed_deliverables(sgs)
        keep == { i \in 1..Len(dels) :
                    /\ deliverable_key(DictGet(completed, dels[i].id, EmptyDict)) # None
                    /\ synthesis_mode(dels[i].worker) = mode }
        items == [ i \in 1..Len(dels) |->
                    LET outs == DictGet(completed, dels[i].id, EmptyDict)
                    IN  [ worker |-> dels[i].worker,
                          key    |-> deliverable_key(outs),
                          value  |-> IF deliverable_key(outs) = None THEN None
                                     ELSE outs[deliverable_key(outs)] ] ]
    IN  SeqFilterIdx(items, keep, 1)

\* variant: no fallback sentence when nothing was collected
assemble_response_no_fallback(narrative_outputs, display_outputs, llm) ==
    LET values(items) == [ i \in 1..Len(items) |-> items[i].value ]
        narrative == IF narrative_outputs = << >> \/ llm = "empty" THEN << >>
                     ELSE IF llm = "raised"
                     THEN << [ part |-> "narrative concatenation", values |-> values(narrative_outputs) ] >>
                     ELSE << [ part |-> "narrative summary", values |-> values(narrative_outputs) ] >>
        display   == IF display_outputs = << >> THEN << >>
                     ELSE << [ part |-> "display", values |-> values(display_outputs) ] >>
    IN  narrative \o display

\* final_response as the sequence of its parts; llm is the summarizer's outcome
assemble_response(narrative_outputs, display_outputs, llm) ==
    LET values(items) == [ i \in 1..Len(items) |-> items[i].value ]
        narrative == IF narrative_outputs = << >> \/ llm = "empty" THEN << >>
                     ELSE IF llm = "raised"
                     THEN << [ part |-> "narrative concatenation", values |-> values(narrative_outputs) ] >>
                     ELSE << [ part |-> "narrative summary", values |-> values(narrative_outputs) ] >>
        display   == IF display_outputs = << >> THEN << >>
                     ELSE << [ part |-> "display", values |-> values(display_outputs) ] >>
    IN  IF narrative \o display = << >>
        THEN << [ part |-> "I wasn't able to complete your request", values |-> << >> ] >>
        ELSE narrative \o display

-----------------------------------------------------------------------------
(* Inputs of a turn: the driver's arguments and the LLM collaborators'     *)
(* answers, drawn from small sets.                                         *)

Questions == { "", "show more" }

PriorArtifact ==
    [ type |-> "es_query", sub_goal_id |-> 1, turn_id |-> 1, intent |-> "intent text",
      slots |-> [ es_query |-> "Q1", next_offset |-> "20", page_size |-> "20" ] ]

NewerArtifact ==
    [ type |-> "es_query", sub_goal_id |-> 2, turn_id |-> 2, intent |-> "intent text",
      slots |-> [ es_query |-> "Q3", next_offset |-> "40", page_size |-> "10" ] ]

OtherArtifact ==
    [ type |-> "analysis_result", sub_goal_id |-> 1, turn_id |-> 2, intent |-> "entity resolution",
      slots |-> [ analysis_result |-> "analysis_result" ] ]

TurnSummary(id, artifacts) == [ turn_id |-> id, key_artifacts |-> artifacts ]

\* two-turn conversations: the later turn without artifacts, with an es_query
\* artifact behind one of another type, and with two es_query artifacts
FollowUpHistories ==
    { << TurnSummary(1, << PriorArtifact >>), TurnSummary(2, << >>) >>,
      << TurnSummary(1, << PriorArtifact >>), TurnSummary(2, << OtherArtifact, NewerArtifact >>) >>,
      << TurnSummary(1, << OtherArtifact >>), TurnSummary(2, << NewerArtifact, PriorArtifact >>) >> }

\* the outcome of the structured LLM call of F01: an exception, or a ReiterateResult
\* force_execute is what the caller hands to ReiterateResult(...); the class
\* declares no such field (f01:25-54)
ReiterateResults ==
    { [ raised |-> TRUE, main_goal |-> "", user_query_text |-> None,
        references_prior_results |-> FALSE, force_execute |-> FALSE ],
      [ raised |-> FALSE, main_goal |-> "", user_query_text |-> None,
        references_prior_results |-> FALSE, force_execute |-> FALSE ],
      [ raised |-> FALSE, main_goal |-> "goal", user_query_text |-> None,
        references_prior_results |-> FALSE, force_execute |-> TRUE ] }
    \cup
    { [ raised |-> FALSE, main_goal |-> "goal", user_query_text |-> None,
        references_prior_results |-> p, force_execute |-> FALSE ] : p \in BOOLEAN }

\* in a follow-up turn the user may also paste a query
FollowUpReiterateResults ==
    ReiterateResults
    \cup { [ raised |-> FALSE, main_goal |-> "goal", user_query_text |-> "Q0",
            references_prior_results |-> p, force_execute |-> FALSE ] : p \in BOOLEAN }
    \cup { [ raised |-> FALSE, main_goal |-> "goal", user_query_text |-> "Q0",
            references_prior_results |-> TRUE, force_execute |-> TRUE ] }

NoReiterate ==
    [ raised |-> FALSE, main_goal |-> None, user_query_text |-> None,
      references_prior_results |-> FALSE, force_execute |-> FALSE ]

Ref(n, f, s) == [ name |-> n, from_sub_goal |-> f, slot |-> s ]
Planned(w, ins, ps, gt) == [ worker |-> w, inputs |-> ins, params |-> ps, goal_type |-> gt ]

P_helpdesk   == Planned("common_helpdesk", << >>, EmptyDict, "deliverable")
P_gen        == Planned("es_query_gen", << >>, EmptyDict, "support")
P_exec_wired == Planned("es_query_exec", << Ref("es_query", 1, "es_query") >>,
                        [ bundles_with_sub_goal |-> 1 ], "support")
P_exec_param == Planned("es_query_exec", << >>,
                        [ bundles_with_sub_goal |-> 1, es_query |-> "Q1" ], "support")
P_page       == Planned("page_query", << Ref("es_query", 0, "prior_es_query") >>, EmptyDict, "support")
P_bad_id     == Planned("show_results", << Ref("es_results", 999, "x") >>, EmptyDict, "deliverable")
P_show       == Planned("show_results", << Ref("es_results", 2, "es_results") >>, EmptyDict, "deliverable")
P_analyze    == Planned("analyze_results", << Ref("es_results", 1, "es_results") >>, EmptyDict, "deliverable")
\* worker is a free string of the LLM's structured output (f02:39)
P_no_worker  == Planned("", << >>, EmptyDict, "deliverable")
P_unknown    == Planned("no_such_worker", << >>, EmptyDict, "deliverable")

\* the turns considered: the conversation so far and the proposals the
\* planner's LLM draws from during the turn
QueryMenu == { P_gen, P_exec_wired, P_exec_param }
PagingMenu == { P_helpdesk, P_page, P_bad_id, P_exec_wired }
TermMenu == { P_helpdesk, P_page }
PipelineMenu == { P_gen, P_exec_wired, P_show }
FollowUpMenu == { P_page }
DispatchMenu == { P_helpdesk, P_no_worker, P_unknown }
AnalysisMenu == { P_exec_param, P_analyze, P_helpdesk }

\* the round budgets the driver passes: small ones, and for the three-step
\* pipeline one that lets the turn finish after it
Budgets == 0..MaxRoundsCap
PipelineBudgets == { MaxRoundsCap + 2 }
FollowUpBudgets == { MaxRoundsCap - 1 }
DispatchBudgets == { MaxRoundsCap }
AnalysisBudgets == { MaxRoundsCap + 1 }

Turns ==
    { [ menu |-> QueryMenu,  history |-> << >>, budgets |-> Budgets ],
      [ menu |-> TermMenu,   history |-> << >>, budgets |-> Budgets ],
      [ menu |-> PagingMenu, history |-> << [ turn_id |-> 1, key_artifacts |-> << PriorArtifact >> ] >>,
        budgets |-> Budgets ],
      [ menu |-> PipelineMenu, history |-> << >>, budgets |-> PipelineBudgets ],
      [ menu |-> DispatchMenu, history |-> << >>, budgets |-> DispatchBudgets ],
      [ menu |-> AnalysisMenu, history |-> << >>, budgets |-> AnalysisBudgets ] }
    \cup { [ menu |-> FollowUpMenu, history |-> h, budgets |-> FollowUpBudgets ]
             : h \in FollowUpHistories }

ReiterateResultsFor(m) ==
    IF m = FollowUpMenu THEN FollowUpReiterateResults ELSE ReiterateResults

Batches(m) == UNION { [ 1..n -> m ] : n \in 0..MaxBatch }

SynthesisProposals ==
    { EmptyDict,
      [ answer |-> [ from_sub_goal |-> 1, slot |-> "answer" ],
        extra  |-> [ from_sub_goal |-> 2, slot |-> "missing" ] ] }

NoDecision ==
    [ raised |-> FALSE, action |-> "none", sub_goals |-> << >>, synthesis_inputs |-> EmptyDict ]

PlannerDecisions(m) ==
    { [ raised |-> TRUE, action |-> "failed", sub_goals |-> << >>, synthesis_inputs |-> EmptyDict ] }
    \cup { [ raised |-> FALSE, action |-> "continue", sub_goals |-> b, synthesis_inputs |-> EmptyDict ]
             : b \in Batches(m) }
    \cup { [ raised |-> FALSE, action |-> "done", sub_goals |-> << >>, synthesis_inputs |-> si ]
             : si \in SynthesisProposals }
    \cup { [ raised |-> FALSE, action |-> "failed", sub_goals |-> << >>, synthesis_inputs |-> EmptyDict ] }

SummarizerOutcomes == { "content", "empty", "raised" }

-----------------------------------------------------------------------------
(* create_initial_state (state.py:185-215)                                 *)

Init ==
    /\ pc = "f01_reiterate"
    /\ original_question \in Questions
    /\ question = original_question
    /\ \E t \in Turns :
          menu = t.menu /\ conversation_history = t.history /\ max_rounds \in t.budgets
    /\ sub_goals = << >>
    /\ completed_outputs = EmptyDict
    /\ round = 1
    /\ status = "planning"
    /\ final_response = << >>
    /\ planner_reasoning = << "" >>
    /\ synthesis_inputs = NoDict
    /\ worker_results = << >>
    /\ key_artifacts = << >>
    /\ sends = << >>
    /\ last_decision = NoDecision
    /\ last_reiterate = NoReiterate
    /\ n_planner = 0
    /\ n_join = 0

-----------------------------------------------------------------------------
(* The graph nodes (graph.py:136-174)                                      *)

\* ReiterateIntention.ainvoke, then the edge f01_reiterate -> f02_planner
f01_reiterate ==
    /\ pc = "f01_reiterate"
    /\ pc' = "f02_planner"
    /\ \E llm \in ReiterateResultsFor(menu) :
        IF question = ""
        THEN /\ question' = ""
             /\ planner_reasoning' = << "F01: No user message provided" >>
             /\ last_reiterate' = NoReiterate
             /\ UNCHANGED completed_outputs
        ELSE IF llm.raised
        THEN /\ planner_reasoning' = << "F01: LLM failed, using original question" >>
             /\ last_reiterate' = llm
             /\ UNCHANGED << question, completed_outputs >>
        ELSE /\ question' = restated_question(llm, question)
             /\ last_reiterate' = llm
             /\ planner_reasoning' = << "F01: reasoning" >>
             /\ completed_outputs' =
                    DictPut(completed_outputs, 0, completed_outputs_0(llm, conversation_history))
    /\ worker_results' = worker_results_reducer(worker_results, worker_results)
    /\ UNCHANGED << original_question, conversation_history, sub_goals, round, max_rounds,
                    status, final_response, synthesis_inputs, key_artifacts, sends,
                    last_decision, menu, n_planner, n_join >>

\* DeterministicPlanner.ainvoke, then control passes to the conditional edge
f02_planner ==
    /\ pc = "f02_planner"
    /\ pc' = "route_after_planner"
    /\ n_planner' = n_planner + 1
    /\ last_reiterate' = NoReiterate
    /\ \E decision \in PlannerDecisions(menu) :
        /\ last_decision' = IF budget_exceeded(round, max_rounds) \/ question = ""
                            THEN NoDecision ELSE decision
        /\ IF budget_exceeded(round, max_rounds)
           THEN /\ status' = "failed"
                /\ planner_reasoning' = << "F02: Exceeded max rounds" >>
                /\ UNCHANGED << sub_goals, synthesis_inputs >>
           ELSE IF question = ""
           THEN /\ status' = "failed"
                /\ planner_reasoning' = << "F02: No question available" >>
                /\ UNCHANGED << sub_goals, synthesis_inputs >>
           ELSE IF decision.raised
           THEN /\ status' = "failed"
                /\ planner_reasoning' = << "F02: Unexpected error" >>
                /\ UNCHANGED << sub_goals, synthesis_inputs >>
           ELSE IF decision.action = "continue" /\ no_sub_goals_planned(decision)
           THEN /\ status' = "failed"
                /\ planner_reasoning' = << "F02: 'continue' with no sub-goals" >>
                /\ UNCHANGED << sub_goals, synthesis_inputs >>
           ELSE IF decision.action = "continue"
           THEN /\ Len(sub_goals) + Len(decision.sub_goals) <= MaxSubGoals
                /\ sub_goals' = appended_sub_goals(sub_goals,
                       _convert_planned_sub_goals(decision.sub_goals, _next_sub_goal_id(sub_goals),
                                                  sub_goals, completed_outputs))
                /\ status' = "executing"
                /\ planner_reasoning' = << "F02: reasoning" >>
                /\ UNCHANGED synthesis_inputs
           ELSE IF decision.action = "done"
           THEN /\ status' = "done"
                /\ synthesis_inputs' =
                       SomeDict(validated_synthesis_inputs(decision.synthesis_inputs, completed_outputs))
                /\ planner_reasoning' = << "F02: reasoning" >>
                /\ UNCHANGED sub_goals
           ELSE /\ status' = "failed"
                /\ planner_reasoning' = << "F02: reasoning" >>
                /\ UNCHANGED << sub_goals, synthesis_inputs >>
    /\ worker_results' = worker_results_reducer(worker_results, worker_results)
    /\ UNCHANGED << original_question, question, conversation_history, completed_outputs,
                    round, max_rounds, final_response, key_artifacts, sends, menu, n_join >>

\* route_after_planner: the conditional edge after f02_planner
route_after_planner ==
    /\ pc = "route_after_planner"
    /\ LET out == ready_sends(sub_goals, completed_outputs)
       IN  /\ pc' = route_target(status, out)
           /\ sends' = IF status = "executing" THEN out ELSE << >>
    /\ last_decision' = NoDecision
    /\ UNCHANGED << original_question, question, conversation_history, sub_goals,
                    completed_outputs, round, max_rounds, status, final_response,
                    planner_reasoning, synthesis_inputs, worker_results, key_artifacts,
                    last_reiterate, menu, n_planner, n_join >>

\* WorkerExecutor.ainvoke on one of the dispatched payloads; the parallel
\* branches complete in any order and f13_join_reduce follows the last one
f03_worker_executor ==
    /\ pc = "f03_worker_executor"
    /\ \E i \in 1..Len(sends) : \E outcome \in worker_outcomes(sends[i]) :
        /\ worker_results' =
              worker_results_reducer(worker_results, << f03_result(sends[i], outcome) >>)
        /\ sends' = SeqFilterIdx(sends, (1..Len(sends)) \ {i}, 1)
        /\ pc' = IF Len(sends) = 1 THEN "f13_join_reduce" ELSE "f03_worker_executor"
    /\ UNCHANGED << original_question, question, conversation_history, sub_goals,
                    completed_outputs, round, max_rounds, status, final_response,
                    planner_reasoning, synthesis_inputs, key_artifacts, last_decision,
                    last_reiterate, menu, n_planner, n_join >>

\* JoinReduce.ainvoke, then the edge f13_join_reduce -> f02_planner
f13_join_reduce ==
    /\ pc = "f13_join_reduce"
    /\ pc' = "f02_planner"
    /\ n_join' = n_join + 1
    /\ IF worker_results = << >>
       THEN /\ key_artifacts' = << >>
            /\ planner_reasoning' = << "F13: No worker results received" >>
            /\ UNCHANGED << sub_goals, completed_outputs >>
       ELSE /\ sub_goals' = join_sub_goals(sub_goals, worker_results)
            /\ completed_outputs' = join_completed(completed_outputs, worker_results, 1)
            /\ key_artifacts' =
                  _build_key_artifacts(worker_results, sub_goals', round, completed_outputs')
            /\ planner_reasoning' =
                  << "F13: Processed results", Len(worker_results),
                     Cardinality({ i \in 1..Len(worker_results) : worker_results[i].status = "success" }),
                     Cardinality({ i \in 1..Len(worker_results) : worker_results[i].status # "success" }) >>
    /\ round' = join_round(worker_results, round)
    /\ status' = "planning"
    /\ worker_results' = worker_results_reducer(worker_results, << >>)
    /\ UNCHANGED << original_question, question, conversation_history, max_rounds,
                    final_response, synthesis_inputs, sends, last_decision, last_reiterate,
                    menu, n_planner >>

\* Synthesizer.ainvoke, then the edge f14_synthesizer -> END
f14_synthesizer ==
    /\ pc = "f14_synthesizer"
    /\ pc' = "END"
    /\ \E llm \in SummarizerOutcomes :
        LET narrative_outputs == collected_outputs(sub_goals, completed_outputs, "narrative")
            display_outputs   == collected_outputs(sub_goals, completed_outputs, "display")
        IN  /\ final_response' = assemble_response(narrative_outputs, display_outputs, llm)
            /\ planner_reasoning' =
                  << "F14: Synthesized", Len(narrative_outputs), Len(display_outputs) >>
    /\ status' = "done"
    /\ worker_results' = worker_results_reducer(worker_results, worker_results)
    /\ UNCHANGED << original_question, question, conversation_history, sub_goals,
                    completed_outputs, round, max_rounds, synthesis_inputs, key_artifacts,
                    sends, last_decision, last_reiterate, menu, n_planner, n_join >>

Next ==
    \/ f01_reiterate
    \/ f02_planner
    \/ route_after_planner
    \/ f03_worker_executor
    \/ f13_join_reduce
    \/ f14_synthesizer

Spec == Init /\ [][Next]_vars

\* The turns whose planner draws from TermMenu, with every enabled node
\* eventually run: LLM and worker calls return, and the graph runtime runs the
\* node an edge leads to.
TermInit == Init /\ menu = TermMenu

FairSpec == TermInit /\ [][Next]_vars /\ WF_vars(Next)

-----------------------------------------------------------------------------
(* Properties                                                              *)

SuccessIdx(results) == { i \in 1..Len(results) : results[i].status = "success" }
SuccessIds(results) == { results[i].sub_goal_id : i \in SuccessIdx(results) }

\* C1: round never decreases; it grows by exactly 1 in every Join/Reduce step
\* (with or without worker results) and no other component changes it.
C1_RoundAdvancesOnlyAtJoin ==
    [][ IF pc = "f13_join_reduce" THEN round' = round + 1 ELSE round' = round ]_vars

C1_Witness ==
    /\ pc = "f02_planner"
    /\ round = 3
    /\ planner_reasoning = << "F13: No worker results received" >>

\* C2: whatever worker_results holds, the Join/Reduce step leaves it empty.
C2_JoinDrainsWorkerResults ==
    [][ pc = "f13_join_reduce" => worker_results' = << >> ]_vars

C2_Witness ==
    /\ pc = "f02_planner"
    /\ worker_results = << >>
    /\ planner_reasoning[1] = "F13: Processed results"
    /\ planner_reasoning[4] >= 1

\* C3: completed_outputs after Join/Reduce is completed_outputs before, extended
\* with exactly id -> outputs for the successful results of the batch; failed
\* results add nothing and the entries of other ids are unchanged.
C3_CompletedExtendedBySuccesses ==
    [][ pc = "f13_join_reduce" =>
          /\ DOMAIN completed_outputs' = (DOMAIN completed_outputs) \cup SuccessIds(worker_results)
          /\ \A k \in (DOMAIN completed_outputs) \ SuccessIds(worker_results) :
                completed_outputs'[k] = completed_outputs[k]
          /\ \A i \in SuccessIdx(worker_results) :
                completed_outputs'[worker_results[i].sub_goal_id] = worker_results[i].outputs
      ]_vars

C3_Witness ==
    /\ pc = "f02_planner"
    /\ planner_reasoning = << "F13: Processed results", 2, 1, 1 >>
    /\ \E i \in 1..Len(sub_goals) :
          sub_goals[i].status = "failed" /\ sub_goals[i].id \notin DOMAIN completed_outputs
    /\ \E i \in 1..Len(sub_goals) :
          sub_goals[i].status = "success" /\ sub_goals[i].id \in DOMAIN completed_outputs

\* C4: when the Router runs with status executing, a pending sub-goal is
\* dispatched iff each of its InputRefs has from_sub_goal as a key of
\* completed_outputs and slot as a key of that entry, whatever the other
\* sub-goals are.
Dispatched(payloads, id) == \E j \in 1..Len(payloads) : payloads[j].sub_goal.id = id

C4_DispatchedIffInputsResolved ==
    [][ (pc = "route_after_planner" /\ status = "executing") =>
          \A i \in 1..Len(sub_goals) :
              sub_goals[i].status = "pending" =>
                ( Dispatched(sends', sub_goals[i].id)
                  <=> \A n \in DOMAIN sub_goals[i].inputs :
                        /\ sub_goals[i].inputs[n].from_sub_goal \in DOMAIN completed_outputs
                        /\ sub_goals[i].inputs[n].slot
                              \in DOMAIN completed_outputs[sub_goals[i].inputs[n].from_sub_goal] )
      ]_vars

C4_Witness ==
    /\ pc = "f03_worker_executor"
    /\ worker_results = << >>
    /\ \E i \in 1..Len(sub_goals) :
          sub_goals[i].status = "pending" /\ ~ Dispatched(sends, sub_goals[i].id)
    /\ \E i \in 1..Len(sub_goals) :
          sub_goals[i].status = "pending" /\ Dispatched(sends, sub_goals[i].id)

\* C5: every sub-goal the planner creates with a status other than failed has
\* only sound InputRefs: the source is a sub-goal of the plan (already there or
\* of the same batch) that declares the slot, or a key of completed_outputs
\* whose entry holds the slot.
SoundRef(ref, sgs, completed) ==
    \/ \E j \in 1..Len(sgs) :
          sgs[j].id = ref.from_sub_goal /\ ref.slot \in SeqRange(sgs[j].outputs)
    \/ /\ ref.from_sub_goal \in DOMAIN completed
       /\ ref.slot \in DOMAIN completed[ref.from_sub_goal]

C5_CreatedSubGoalsHaveSoundRefs ==
    [][ pc = "f02_planner" =>
          \A i \in (Len(sub_goals) + 1)..Len(sub_goals') :
              sub_goals'[i].status # "failed" =>
                \A n \in DOMAIN sub_goals'[i].inputs :
                    SoundRef(sub_goals'[i].inputs[n], sub_goals', completed_outputs)
      ]_vars

\* C6: in a planner batch, a sub-goal with an invalid InputRef (unknown source
\* id, or slot not in the source's slot set) is created failed with an error
\* naming the reference, every sub-goal whose InputRefs are all valid is created
\* pending, and the plan status becomes executing.
SourceSlots(from_id, planned, id_start, existing, completed) ==
    IF from_id \in DOMAIN completed THEN DOMAIN completed[from_id]
    ELSE IF \E j \in 1..Len(existing) : existing[j].id = from_id
    THEN UNION { SeqRange(existing[j].outputs) : j \in { l \in 1..Len(existing) : existing[l].id = from_id } }
    ELSE SeqRange(registry_outputs(planned[from_id - id_start + 1].worker))

InvalidRef(ref, planned, id_start, existing, completed) ==
    \/ ref.from_sub_goal \notin
          ({ existing[j].id : j \in 1..Len(existing) }
             \cup (id_start..(id_start + Len(planned) - 1)) \cup DOMAIN completed)
    \/ ref.slot \notin SourceSlots(ref.from_sub_goal, planned, id_start, existing, completed)

C6_InvalidRefFailsOnlyItsSubGoal ==
    [][ ( /\ pc = "f02_planner"
          /\ last_decision'.action = "continue"
          /\ ~ last_decision'.raised
          /\ last_decision'.sub_goals # << >> ) =>
          LET planned  == last_decision'.sub_goals
              id_start == _next_sub_goal_id(sub_goals)
          IN  /\ status' = "executing"
              /\ \A i \in 1..Len(planned) :
                    \E j \in (Len(sub_goals) + 1)..Len(sub_goals') :
                        /\ sub_goals'[j].id = id_start + i - 1
                        /\ IF \E k \in 1..Len(planned[i].inputs) :
                                InvalidRef(planned[i].inputs[k], planned, id_start,
                                           sub_goals, completed_outputs)
                           THEN /\ sub_goals'[j].status = "failed"
                                /\ \E k \in 1..Len(planned[i].inputs) :
                                      /\ InvalidRef(planned[i].inputs[k], planned, id_start,
                                                    sub_goals, completed_outputs)
                                      /\ sub_goals'[j].error.id = planned[i].inputs[k].from_sub_goal
                           ELSE sub_goals'[j].status = "pending"
      ]_vars

\* C7: a planner invoked with round > max_rounds returns failed with the
\* budget-exhausted reason and creates no sub-goal, the turn then ends failed;
\* this is the planner's invocation number max_rounds + 1.
C7_BudgetExhaustedFailsTurn ==
    [][ /\ (pc = "f02_planner" /\ round > max_rounds) =>
              /\ status' = "failed"
              /\ planner_reasoning' = << "F02: Exceeded max rounds" >>
              /\ sub_goals' = sub_goals
              /\ round = max_rounds + 1
              /\ n_planner' = max_rounds + 1
        /\ (pc = "route_after_planner" /\ round > max_rounds) =>
              /\ pc' = "END"
              /\ status' = "failed"
              /\ sends' = << >>
      ]_vars

C7_Witness ==
    /\ pc = "END"
    /\ max_rounds = 2
    /\ round = 3
    /\ n_planner = 3
    /\ status = "failed"
    /\ planner_reasoning = << "F02: Exceeded max rounds" >>

\* C8: every turn reaches END with status done or failed, after at most
\* max_rounds Join/Reduce invocations and at most max_rounds + 1 Planner
\* invocations.
C8_TurnTerminatesWithinBudget ==
    <>( /\ pc = "END"
        /\ status \in { "done", "failed" }
        /\ n_join <= max_rounds
        /\ n_planner <= max_rounds + 1 )

C8_Witness ==
    /\ pc = "END"
    /\ max_rounds >= 2
    /\ n_join = max_rounds
    /\ n_planner = max_rounds + 1

\* C9: the state Join/Reduce produces is determined by the set of results of
\* the round, not by the order in which the executors appended them.
ResultOf(S, id) == CHOOSE r \in S : r.sub_goal_id = id

C9_JoinIndependentOfArrivalOrder ==
    [][ pc = "f13_join_reduce" =>
          LET S == SeqRange(worker_results)
              ok == { r \in S : r.status = "success" }
          IN  /\ Len(sub_goals') = Len(sub_goals)
              /\ \A i \in 1..Len(sub_goals) :
                    IF \E r \in S : r.sub_goal_id = sub_goals[i].id
                    THEN sub_goals'[i] =
                            [ sub_goals[i] EXCEPT
                                !.status = ResultOf(S, sub_goals[i].id).status,
                                !.result = << ResultOf(S, sub_goals[i].id).outputs >>,
                                !.error  = ResultOf(S, sub_goals[i].id).error ]
                    ELSE sub_goals'[i] = sub_goals[i]
              /\ completed_outputs' =
                    [ k \in (DOMAIN completed_outputs) \cup { r.sub_goal_id : r \in ok } |->
                        IF \E r \in ok : r.sub_goal_id = k
                        THEN ResultOf(ok, k).outputs
                        ELSE completed_outputs[k] ]
              /\ round' = round + 1
              /\ status' = "planning"
      ]_vars

C9_Witness ==
    /\ pc = "f13_join_reduce"
    /\ Len(worker_results) = 2
    /\ worker_results[1].sub_goal_id > worker_results[2].sub_goal_id
    /\ worker_results[1].status # worker_results[2].status

\* C10: _build_key_artifacts yields the same multiset of KeyArtifacts for every
\* ordering of the round's worker results.
ArtifactBag(arts) ==
    [ a \in SeqRange(arts) |-> Cardinality({ i \in 1..Len(arts) : arts[i] = a }) ]

Reordered(results, p) == [ i \in 1..Len(results) |-> results[p[i]] ]

C10_ArtifactsIndependentOfOrder ==
    pc = "f13_join_reduce" =>
        LET sgs  == join_sub_goals(sub_goals, worker_results)
            done == join_completed(completed_outputs, worker_results, 1)
        IN  \A p \in Permutations(1..Len(worker_results)) :
                ArtifactBag(_build_key_artifacts(Reordered(worker_results, p), sgs, round, done))
                  = ArtifactBag(_build_key_artifacts(worker_results, sgs, round, done))

\* C11: a turn in which es_query_gen sub-goal G succeeds, an es_query_exec
\* sub-goal bundled with G (and fed by it, hence joined in a later round)
\* succeeds, and a further sub-goal fed by the exec step succeeds in a still
\* later round, ends done with exactly one es_query artifact whose slots hold
\* G's es_query and the exec step's next_offset and page_size.
RefersTo(sg, id) == \E n \in DOMAIN sg.inputs : sg.inputs[n].from_sub_goal = id

BundledPipeline(g, e, s) ==
    /\ g.worker = "es_query_gen" /\ g.status = "success"
    /\ e.worker = "es_query_exec" /\ e.status = "success"
    /\ DictGet(e.params, "bundles_with_sub_goal", 0) = g.id
    /\ RefersTo(e, g.id)
    /\ s.status = "success"
    /\ RefersTo(s, e.id)

C11_TurnEndsWithOneBundledArtifact ==
    (pc = "END" /\ status = "done") =>
        \A i, j, k \in 1..Len(sub_goals) :
            BundledPipeline(sub_goals[i], sub_goals[j], sub_goals[k]) =>
                LET es == { a \in 1..Len(key_artifacts) : key_artifacts[a].type = "es_query" }
                IN  /\ Cardinality(es) = 1
                    /\ \A a \in es :
                          /\ DictGet(key_artifacts[a].slots, "es_query", None)
                                = completed_outputs[sub_goals[i].id].es_query
                          /\ DictGet(key_artifacts[a].slots, "next_offset", None)
                                = completed_outputs[sub_goals[j].id].next_offset
                          /\ DictGet(key_artifacts[a].slots, "page_size", None)
                                = completed_outputs[sub_goals[j].id].page_size

\* C12: when the Normalizer's LLM reports a reference to prior results and the
\* most recent turn of the history that has an es_query artifact has, as its
\* first such artifact, one with slots es_query Q, next_offset K and page_size
\* P, then completed_outputs[0] holds prior_es_query = Q, prior_next_offset = K
\* and prior_page_size = P after the Normalizer.
MostRecentEsQuery(history) ==
    LET turns == { k \in 1..Len(history) :
                     \E i \in 1..Len(history[k].key_artifacts) :
                         history[k].key_artifacts[i].type = "es_query" }
    IN  IF turns = {} THEN << >>
        ELSE LET arts == history[Max(turns)].key_artifacts
                 first == CHOOSE i \in 1..Len(arts) :
                             /\ arts[i].type = "es_query"
                             /\ \A j \in 1..(i - 1) : arts[j].type # "es_query"
             IN  << arts[first].slots >>

C12_PaginationRoundTrip ==
    [][ ( /\ pc = "f01_reiterate"
          /\ ~ last_reiterate'.raised
          /\ last_reiterate'.references_prior_results
          /\ MostRecentEsQuery(conversation_history) # << >>
          /\ { "es_query", "next_offset", "page_size" }
                \subseteq DOMAIN MostRecentEsQuery(conversation_history)[1] ) =>
          LET slots == MostRecentEsQuery(conversation_history)[1]
          IN  /\ 0 \in DOMAIN completed_outputs'
              /\ { "prior_es_query", "prior_next_offset", "prior_page_size" }
                    \subseteq DOMAIN completed_outputs'[0]
              /\ completed_outputs'[0].prior_es_query = slots.es_query
              /\ completed_outputs'[0].prior_next_offset = slots.next_offset
              /\ completed_outputs'[0].prior_page_size = slots.page_size
      ]_vars

C12_Witness ==
    /\ pc = "f02_planner"
    /\ last_reiterate.references_prior_results
    /\ Len(conversation_history) = 2
    /\ conversation_history[2].key_artifacts[1].type # "es_query"
    /\ 0 \in DOMAIN completed_outputs
    /\ DictGet(completed_outputs[0], "prior_es_query", None) = "Q3"
    /\ DictGet(completed_outputs[0], "prior_next_offset", None) = "40"

\* C13: a sub-goal whose status is success or failed keeps its place and id in
\* sub_goals and is not pending after any step of the turn.
C13_StatusNeverBackToPending ==
    [][ \A i \in 1..Len(sub_goals) :
            sub_goals[i].status \in { "success", "failed" } =>
                /\ i <= Len(sub_goals')
                /\ sub_goals'[i].id = sub_goals[i].id
                /\ sub_goals'[i].status # "pending"
      ]_vars

C13_Witness ==
    /\ pc = "f02_planner"
    /\ n_join = 2
    /\ planner_reasoning[1] = "F13: Processed results"
    /\ \E i, j \in 1..Len(sub_goals) :
          /\ sub_goals[i].status = "success"
          /\ sub_goals[j].status = "failed"
          /\ sub_goals[j].error.msg = "Invalid InputRef: sub_goal does not exist"
          /\ \E k \in 1..Len(sub_goals) :
                k # i /\ sub_goals[k].status # "pending" /\ sub_goals[k].result # NoDict

\* C14: after every step, a sub-goal with status success has a result, its id
\* is a key of completed_outputs and the entry equals the result; when the step
\* is a Join/Reduce that received the sub-goal's successful worker result, the
\* result holds exactly the outputs the worker returned.
C14_SuccessHasResultAndCompletedEntry ==
    [][ \A i \in 1..Len(sub_goals') :
            sub_goals'[i].status = "success" =>
                /\ sub_goals'[i].result # NoDict
                /\ sub_goals'[i].id \in DOMAIN completed_outputs'
                /\ completed_outputs'[sub_goals'[i].id] = sub_goals'[i].result[1]
                /\ pc = "f13_join_reduce" =>
                      \A k \in 1..Len(worker_results) :
                          worker_results[k].sub_goal_id = sub_goals'[i].id =>
                              sub_goals'[i].result[1] = worker_results[k].outputs
      ]_vars

C14_Witness ==
    /\ pc = "f02_planner"
    /\ n_join = 2
    /\ \E i, j \in 1..Len(sub_goals) :
          /\ i # j
          /\ sub_goals[i].status = "success"
          /\ sub_goals[j].status = "success"
          /\ DOMAIN sub_goals[i].result[1] # DOMAIN sub_goals[j].result[1]
          /\ completed_outputs[sub_goals[i].id] = sub_goals[i].result[1]
          /\ completed_outputs[sub_goals[j].id] = sub_goals[j].result[1]

\* C15: after every step, each key of completed_outputs other than 0 is the id
\* of a sub-goal of sub_goals whose status is success, and only the Normalizer
\* step changes the presence or the content of key 0.
C15_CompletedKeysAreSuccessfulSubGoals ==
    [][ /\ \A k \in (DOMAIN completed_outputs') \ { 0 } :
              \E i \in 1..Len(sub_goals') :
                  sub_goals'[i].id = k /\ sub_goals'[i].status = "success"
        /\ pc # "f01_reiterate" =>
              /\ (0 \in DOMAIN completed_outputs') <=> (0 \in DOMAIN completed_outputs)
              /\ 0 \in DOMAIN completed_outputs => completed_outputs'[0] = completed_outputs[0]
      ]_vars

C15_Witness ==
    /\ pc = "f02_planner"
    /\ n_join >= 1
    /\ { 0, 1, 2 } \subseteq DOMAIN completed_outputs
    /\ completed_outputs[0] # EmptyDict
    /\ \E i \in 1..Len(sub_goals) :
          sub_goals[i].status = "failed" /\ sub_goals[i].result # NoDict

\* C16: in every state the ids of sub_goals are at least 1 and strictly
\* increasing along the list (hence unique), whatever the rounds and batches
\* that created them.
C16_SubGoalIdsStrictlyIncreasing ==
    /\ \A i \in 1..Len(sub_goals) : sub_goals[i].id >= 1
    /\ \A i, j \in 1..Len(sub_goals) : i < j => sub_goals[i].id < sub_goals[j].id

\* C17: in every state after the Normalizer node has run, completed_outputs
\* has key 0 and the slot names stored under it are among user_es_query,
\* prior_es_query, prior_next_offset, prior_page_size and force_execute.
ContextSlots ==
    { "user_es_query", "prior_es_query", "prior_next_offset", "prior_page_size", "force_execute" }

C17_NormalizerWritesKeyZero ==
    pc # "f01_reiterate" =>
        /\ 0 \in DOMAIN completed_outputs
        /\ DOMAIN completed_outputs[0] \subseteq ContextSlots

\* C18: when the Normalizer's LLM call raises, the Normalizer leaves question
\* equal to the original utterance, records the failure in planner_reasoning,
\* does not set status failed and hands over to the Planner; when the LLM
\* returns an empty goal, question is the original utterance as well.
C18_NormalizerFallsBackToOriginal ==
    [][ /\ (pc = "f01_reiterate" /\ last_reiterate'.raised) =>
              /\ question' = original_question
              /\ planner_reasoning' = << "F01: LLM failed, using original question" >>
              /\ status' # "failed"
              /\ pc' = "f02_planner"
        /\ (pc = "f01_reiterate" /\ ~ last_reiterate'.raised /\ last_reiterate'.main_goal = "") =>
              /\ question' = original_question
              /\ status' # "failed"
              /\ pc' = "f02_planner"
      ]_vars

C18_Witness ==
    /\ pc = "route_after_planner"
    /\ n_planner = 1
    /\ question = original_question
    /\ question # ""
    /\ status = "executing"
    /\ 0 \notin DOMAIN completed_outputs

\* C19: every executor step contributes exactly one WorkerResult carrying the
\* id of the dispatched sub-goal; for a sub-goal without a worker name, for a
\* worker name that is not in WORKER_MAP, and for a worker body that raised,
\* that result has status failed, empty outputs and a non-empty error, and in
\* the first two cases it is the executor's own report whatever a worker body
\* would have produced.
ExecutorReport(wi, r) ==
    /\ r.sub_goal_id = wi.sub_goal.id
    /\ wi.sub_goal.worker = "" =>
          /\ r.status = "failed" /\ r.outputs = EmptyDict
          /\ r.error = MkError("No worker specified in sub_goal", wi.sub_goal.id, "")
    /\ (wi.sub_goal.worker # "" /\ wi.sub_goal.worker \notin WORKER_MAP) =>
          /\ r.status = "failed" /\ r.outputs = EmptyDict
          /\ r.error = MkError("Unknown worker", wi.sub_goal.id, wi.sub_goal.worker)
    /\ (r.error # NoError /\ r.error.msg = "Worker execution failed") =>
          /\ r.status = "failed" /\ r.outputs = EmptyDict

C19_ExecutorFailureModes ==
    [][ pc = "f03_worker_executor" =>
          /\ Len(worker_results') = Len(worker_results) + 1
          /\ SubSeq(worker_results', 1, Len(worker_results)) = worker_results
          /\ \E i \in 1..Len(sends) :
                /\ sends' = SeqFilterIdx(sends, (1..Len(sends)) \ {i}, 1)
                /\ ExecutorReport(sends[i], worker_results'[Len(worker_results')])
      ]_vars

FailedReport(sg, msg) ==
    /\ sg.status = "failed" /\ sg.result = SomeDict(EmptyDict)
    /\ sg.error # NoError /\ sg.error.msg = msg /\ sg.error.id = sg.id

C19_Witness ==
    /\ n_join >= 1
    /\ \E i \in 1..Len(sub_goals) :
          sub_goals[i].worker = "" /\ FailedReport(sub_goals[i], "No worker specified in sub_goal")
    /\ \E i \in 1..Len(sub_goals) :
          sub_goals[i].worker = "no_such_worker" /\ FailedReport(sub_goals[i], "Unknown worker")
    /\ \E i \in 1..Len(sub_goals) :
          sub_goals[i].worker \in WORKER_MAP /\ FailedReport(sub_goals[i], "Worker execution failed")

\* C20: when the turn ends after the Synthesizer ran with a present, non-empty
\* synthesis_inputs, the values the response is built from are exactly the
\* values of the (from_sub_goal, slot) pairs synthesis_inputs names, each as
\* often as it is named.
NamedCount(v) ==
    LET d == synthesis_inputs[1]
    IN  Cardinality({ n \in DOMAIN d :
                        completed_outputs[d[n].from_sub_goal][d[n].slot] = v })

UsedCount(v) ==
    Cardinality({ pi \in { << p, i >> : p \in 1..Len(final_response), i \in 1..MaxSubGoals } :
                    /\ pi[2] <= Len(final_response[pi[1]].values)
                    /\ final_response[pi[1]].values[pi[2]] = v })

ResponseValues ==
    UNION { SeqRange(final_response[p].values) : p \in 1..Len(final_response) }

C20_SynthesisInputsSelectResponse ==
    ( /\ pc = "END"
      /\ final_response # << >>
      /\ synthesis_inputs # NoDict
      /\ synthesis_inputs[1] # EmptyDict ) =>
        /\ \A v \in ResponseValues : UsedCount(v) = NamedCount(v)
        /\ \A n \in DOMAIN synthesis_inputs[1] :
              LET ref == synthesis_inputs[1][n]
              IN  completed_outputs[ref.from_sub_goal][ref.slot] \in ResponseValues

\* C21: no output of a sub-goal whose worker is registered with synthesis_mode
\* hidden, or is not registered at all, is part of final_response; the values
\* of the narrative part are outputs of narrative workers' sub-goals and the
\* values of the display part are outputs of display workers' sub-goals.
RegisteredMode(worker_name) ==
    IF worker_name \in RegistryNames
    THEN (CHOOSE i \in 1..Len(WORKER_REGISTRY) : WORKER_REGISTRY[i].name = worker_name)
    ELSE 0

ModeOf(sg) ==
    IF RegisteredMode(sg.worker) = 0 THEN "hidden"
    ELSE WORKER_REGISTRY[RegisteredMode(sg.worker)].synthesis_mode

OutputValues(sg) ==
    IF sg.id \in DOMAIN completed_outputs
    THEN { completed_outputs[sg.id][k] : k \in DOMAIN completed_outputs[sg.id] }
    ELSE {}

PartMode(part) ==
    IF part.part = "display" THEN "display" ELSE "narrative"

C21_HiddenOutputsNeverInResponse ==
    /\ \A i \in 1..Len(sub_goals) :
          ModeOf(sub_goals[i]) = "hidden" =>
              \A p \in 1..Len(final_response) :
                  SeqRange(final_response[p].values) \cap OutputValues(sub_goals[i]) = {}
    /\ \A p \in 1..Len(final_response) : \A v \in SeqRange(final_response[p].values) :
          \E i \in 1..Len(sub_goals) :
              /\ ModeOf(sub_goals[i]) = PartMode(final_response[p])
              /\ v \in OutputValues(sub_goals[i])

C21_Witness ==
    /\ pc = "END"
    /\ \E p \in 1..Len(final_response) : final_response[p].values # << >>
    /\ \E i \in 1..Len(sub_goals) :
          /\ sub_goals[i].worker = "common_helpdesk"
          /\ sub_goals[i].status = "success"
          /\ sub_goals[i].goal_type = "deliverable"

\* C22: when a turn whose only sub-goal is a common_helpdesk deliverable
\* (id 1) that succeeded with an answer ends after the Planner declared done
\* with synthesis_inputs = {answer: (1, answer)}, its status is done and
\* final_response contains that answer.
FaqTurn ==
    /\ Len(sub_goals) = 1
    /\ sub_goals[1].id = 1
    /\ sub_goals[1].worker = "common_helpdesk"
    /\ sub_goals[1].goal_type = "deliverable"
    /\ sub_goals[1].status = "success"
    /\ 1 \in DOMAIN completed_outputs
    /\ "answer" \in DOMAIN completed_outputs[1]
    /\ synthesis_inputs = SomeDict([ answer |-> [ from_sub_goal |-> 1, slot |-> "answer" ] ])

C22_FaqAnswerReachesResponse ==
    (pc = "END" /\ FaqTurn) =>
        /\ status = "done"
        /\ \E p \in 1..Len(final_response) :
              completed_outputs[1]["answer"] \in SeqRange(final_response[p].values)

\* C23: when the Planner declares done, the stored synthesis_inputs are
\* exactly the proposed references whose from_sub_goal is a key of
\* completed_outputs and whose slot is in that entry, and status is done
\* however many references were dropped.
ValidSynthesisRef(ref) ==
    /\ ref.from_sub_goal \in DOMAIN completed_outputs
    /\ ref.slot \in DOMAIN completed_outputs[ref.from_sub_goal]

C23_DoneStoresValidSynthesisInputs ==
    [][ (pc = "f02_planner" /\ ~ last_decision'.raised /\ last_decision'.action = "done") =>
          LET proposed == last_decision'.synthesis_inputs
          IN  /\ status' = "done"
              /\ synthesis_inputs' # NoDict
              /\ DOMAIN synthesis_inputs'[1] =
                    { n \in DOMAIN proposed : ValidSynthesisRef(proposed[n]) }
              /\ \A n \in DOMAIN synthesis_inputs'[1] : synthesis_inputs'[1][n] = proposed[n]
      ]_vars

C23_Witness ==
    /\ pc = "route_after_planner"
    /\ last_decision.action = "done"
    /\ status = "done"
    /\ synthesis_inputs # NoDict
    /\ DOMAIN synthesis_inputs[1] # {}
    /\ DOMAIN synthesis_inputs[1] # DOMAIN last_decision.synthesis_inputs

\* C24: when the planner's decision is continue with no sub-goals, the Planner
\* sets status failed and leaves sub_goals as they are, also when sub-goals of
\* earlier rounds are still pending.
C24_ContinueWithoutSubGoalsFails ==
    [][ ( /\ pc = "f02_planner"
          /\ ~ last_decision'.raised
          /\ last_decision'.action = "continue"
          /\ last_decision'.sub_goals = << >> ) =>
            /\ status' = "failed"
            /\ sub_goals' = sub_goals
            /\ pc' = "route_after_planner"
      ]_vars

C24_Witness ==
    /\ pc = "route_after_planner"
    /\ last_decision.action = "continue"
    /\ last_decision.sub_goals = << >>
    /\ status = "failed"
    /\ \E i \in 1..Len(sub_goals) : sub_goals[i].status = "pending"

\* C25: the node the Router leads to is determined by the state: done leads to
\* the Synthesizer, every status other than executing and done leads to END,
\* executing leads to the Executor with a non-empty list of dispatches or to
\* Join/Reduce with none; nothing is dispatched unless status is executing.
StatusValues == { "planning", "executing", "done", "failed" }

RouterTable(st, target) ==
    /\ st = "done" => target = "f14_synthesizer"
    /\ st \notin { "executing", "done" } => target = "END"
    /\ st = "executing" => target \in { "f03_worker_executor", "f13_join_reduce" }

SampleResult(id, st) == create_worker_result(id, st, EmptyDict, NoError)

MergeSamples ==
    LET rs == { SampleResult(1, "success"), SampleResult(2, "failed") }
    IN  { << >>, worker_results }
        \cup { << r >> : r \in rs }
        \cup { << r1, r2 >> : r1 \in rs, r2 \in rs }

MergeLaw(existing, update) ==
    LET merged == worker_results_reducer(existing, update)
    IN  IF update = << >>
        THEN merged = << >>
        ELSE /\ Len(merged) = Len(existing) + Len(update)
             /\ \A i \in 1..Len(existing) : merged[i] = existing[i]
             /\ \A i \in 1..Len(update) : merged[Len(existing) + i] = update[i]

C26_MergeDrainsOrAppends ==
    [][ /\ \A update \in MergeSamples : MergeLaw(worker_results, update)
        /\ pc = "f13_join_reduce" => worker_results' = << >>
        /\ pc = "f03_worker_executor" =>
              /\ Len(worker_results') = Len(worker_results) + 1
              /\ \A i \in 1..Len(worker_results) : worker_results'[i] = worker_results[i]
      ]_vars

C26_Witness ==
    /\ pc = "f13_join_reduce"
    /\ n_join >= 1
    /\ Len(worker_results) = 2
    /\ worker_results[1] # worker_results[2]

\* C27: when the Normalizer's LLM call returned, completed_outputs[0] holds the
\* slot force_execute with value true if the structured result has
\* force_execute = true, and does not hold that slot if it is false, whatever
\* the other slots of completed_outputs[0] are.
C27_ForceExecuteWrittenWhenTrue ==
    [][ ( /\ pc = "f01_reiterate"
          /\ last_reiterate' # NoReiterate
          /\ ~ last_reiterate'.raised ) =>
            /\ 0 \in DOMAIN completed_outputs'
            /\ last_reiterate'.force_execute <=>
                  "force_execute" \in DOMAIN completed_outputs'[0]
            /\ "force_execute" \in DOMAIN completed_outputs'[0] =>
                  completed_outputs'[0]["force_execute"] = "True"
      ]_vars

\* C28: when the Planner has decided to continue, every sub-goal of an earlier
\* round that is still pending and whose InputRefs all resolve in
\* completed_outputs is dispatched by the Router, whether or not the decision
\* proposed new sub-goals.
CarriedOver(i) ==
    /\ i <= Len(sub_goals) - Len(last_decision.sub_goals)
    /\ sub_goals[i].status = "pending"
    /\ _is_sub_goal_ready(sub_goals[i], completed_outputs)

C28_PendingDispatchedOnceResolved ==
    [][ ( /\ pc = "route_after_planner"
          /\ ~ last_decision.raised
          /\ last_decision.action = "continue" ) =>
            \A i \in 1..Len(sub_goals) :
                CarriedOver(i) =>
                    \E j \in 1..Len(sends') : sends'[j].sub_goal.id = sub_goals[i].id
      ]_vars

\* C29: when status is executing and no pending sub-goal has all its InputRefs
\* resolved (in particular when none is pending), the Router leads to
\* Join/Reduce and dispatches nothing; the Join/Reduce of such a round adds 1
\* to round, sets status planning and leaves sub_goals and completed_outputs
\* as they are.
NothingReady ==
    \A i \in 1..Len(sub_goals) :
        sub_goals[i].status = "pending" =>
            ~ _is_sub_goal_ready(sub_goals[i], completed_outputs)

DispatchedInRound == ready_sends(sub_goals, completed_outputs)

Contributions(id) ==
    Cardinality({ i \in 1..Len(worker_results) : worker_results[i].sub_goal_id = id })

Outstanding(id) ==
    Cardinality({ i \in 1..Len(sends) : sends[i].sub_goal.id = id })

C30_JoinSeesOneResultPerDispatch ==
    /\ pc = "f03_worker_executor" =>
          /\ sends # << >>
          /\ Len(worker_results) + Len(sends) = Len(DispatchedInRound)
          /\ \A j \in 1..Len(DispatchedInRound) :
                Contributions(DispatchedInRound[j].sub_goal.id) + Outstanding(DispatchedInRound[j].sub_goal.id) = 1
    /\ pc = "f13_join_reduce" =>
          /\ sends = << >>
          /\ Len(worker_results) = Len(DispatchedInRound)
          /\ \A j \in 1..Len(DispatchedInRound) : Contributions(DispatchedInRound[j].sub_goal.id) = 1

C30_Witness ==
    /\ pc = "f13_join_reduce"
    /\ Len(worker_results) >= 2
    /\ worker_results[1].sub_goal_id > worker_results[2].sub_goal_id
    /\ worker_results[1].status = "success"

\* C31: when the body of a registered worker returns, the single element the
\* Executor appends to worker_results is a WorkerResult that body returned,
\* field by field (sub_goal_id, status, outputs, error, message), for a
\* success as for a failed result.
ReturnedBy(wi) ==
    { o.result : o \in { x \in worker_outcomes(wi) : ~ x.raised } }

ExecutorOwnReport(r) ==
    /\ r.error # NoError
    /\ r.error.msg \in { "No worker specified in sub_goal", "Unknown worker",
                         "Worker execution failed" }

C31_ExecutorForwardsReturnedResult ==
    [][ pc = "f03_worker_executor" =>
          /\ Len(worker_results') = Len(worker_results) + 1
          /\ LET r == worker_results'[Len(worker_results')]
             IN  \E i \in 1..Len(sends) :
                    /\ sends' = SeqFilterIdx(sends, (1..Len(sends)) \ {i}, 1)
                    /\ ExecutorOwnReport(r) \/ r \in ReturnedBy(sends[i])
                    /\ ExecutorOwnReport(r) =>
                          \/ sends[i].sub_goal.worker \notin WORKER_MAP
                          \/ \E o \in worker_outcomes(sends[i]) : o.raised
      ]_vars

C31_Witness ==
    /\ pc = "f13_join_reduce"
    /\ \E i \in 1..Len(worker_results) :
          /\ worker_results[i].status = "success"
          /\ worker_results[i].message = "ok"
          /\ worker_results[i].outputs # EmptyDict
    /\ \E i \in 1..Len(worker_results) :
          /\ worker_results[i].status = "failed"
          /\ worker_results[i].error = MkError("worker failed", worker_results[i].sub_goal_id,
                                               worker_results[i].error.name)

\* C32: every WorkerInput the Router dispatches carries a sub-goal of the plan
\* as it is, and resolved_inputs has exactly the names of that sub-goal's
\* inputs, each with the value completed_outputs[from_sub_goal][slot] has at
\* that moment; every input of a dispatched sub-goal is resolved.
Hydrated(wi) ==
    /\ \E i \in 1..Len(sub_goals) : wi.sub_goal = sub_goals[i]
    /\ DOMAIN wi.resolved_inputs = DOMAIN wi.sub_goal.inputs
    /\ \A n \in DOMAIN wi.sub_goal.inputs :
          LET ref == wi.sub_goal.inputs[n]
          IN  /\ ref.from_sub_goal \in DOMAIN completed_outputs
              /\ ref.slot \in DOMAIN completed_outputs[ref.from_sub_goal]
              /\ wi.resolved_inputs[n] = completed_outputs[ref.from_sub_goal][ref.slot]

C32_DispatchCarriesResolvedInputs ==
    [][ pc = "route_after_planner" =>
          \A j \in 1..Len(sends') : Hydrated(sends'[j])
      ]_vars

C32_Witness ==
    /\ pc = "f03_worker_executor"
    /\ \E j \in 1..Len(sends) :
          /\ "es_query" \in DOMAIN sends[j].resolved_inputs
          /\ sends[j].sub_goal.inputs["es_query"].slot = "prior_es_query"
          /\ sends[j].resolved_inputs["es_query"] # None

\* C33: Join/Reduce keeps the number and the order of sub_goals; a sub-goal
\* with no result in the batch is left as it is, and a sub-goal with a result
\* changes in status, result and error only, which are taken from that result.
ResultsFor(id) ==
    { i \in 1..Len(worker_results) : worker_results[i].sub_goal_id = id }

C33_JoinTouchesOnlyReportedSubGoals ==
    [][ pc = "f13_join_reduce" =>
          /\ Len(sub_goals') = Len(sub_goals)
          /\ \A i \in 1..Len(sub_goals) :
                IF ResultsFor(sub_goals[i].id) = {}
                THEN sub_goals'[i] = sub_goals[i]
                ELSE /\ [ sub_goals'[i] EXCEPT !.status = sub_goals[i].status,
                                               !.result = sub_goals[i].result,
                                               !.error  = sub_goals[i].error ] = sub_goals[i]
                     /\ \E k \in ResultsFor(sub_goals[i].id) :
                           /\ sub_goals'[i].status = worker_results[k].status
                           /\ sub_goals'[i].result = SomeDict(worker_results[k].outputs)
                           /\ sub_goals'[i].error = worker_results[k].error
      ]_vars

C33_Witness ==
    /\ pc = "f02_planner"
    /\ n_join = 1
    /\ Len(planner_reasoning) = 4
    /\ \E i \in 1..Len(sub_goals) : \E j \in 1..Len(sub_goals) :
          /\ i < j
          /\ sub_goals[i].status \in { "success", "failed" }
          /\ sub_goals[i].result # NoDict
          /\ sub_goals[j].status = "pending"
          /\ sub_goals[j].result = NoDict

\* C34: no step of a turn removes or reorders entries of sub_goals: every
\* step keeps each existing sub-goal at its position with the same id, worker,
\* inputs, params and goal_type, and the Planner is the only component that
\* adds sub-goals, behind the existing ones.
SameIdentity(a, b) ==
    /\ a.id = b.id
    /\ a.worker = b.worker
    /\ a.inputs = b.inputs
    /\ a.params = b.params
    /\ a.goal_type = b.goal_type

C34_PlanIsAppendOnly ==
    [][ /\ Len(sub_goals') >= Len(sub_goals)
        /\ \A i \in 1..Len(sub_goals) : SameIdentity(sub_goals'[i], sub_goals[i])
        /\ Len(sub_goals') > Len(sub_goals) => pc = "f02_planner"
        /\ pc = "f02_planner" =>
              \A i \in 1..Len(sub_goals) : sub_goals'[i] = sub_goals[i]
      ]_vars

C34_Witness ==
    /\ pc = "route_after_planner"
    /\ n_planner = 2
    /\ Len(last_decision.sub_goals) >= 1
    /\ Len(sub_goals) > Len(last_decision.sub_goals)
    /\ sub_goals[1].status # "pending"
    /\ sub_goals[Len(sub_goals)].id > sub_goals[1].id

\* C35: when the planner's LLM call raises (a failed call or a decision that
\* does not validate), the Planner sets status failed, puts a diagnostic in
\* planner_reasoning and leaves sub_goals, completed_outputs, round and
\* worker_results as they are; the Router then ends the turn with nothing
\* dispatched, and nothing runs after the end of a turn.
C35_PlannerErrorFailsTurn ==
    [][ /\ (pc = "f02_planner" /\ last_decision'.raised) =>
              /\ status' = "failed"
              /\ planner_reasoning' = << "F02: Unexpected error" >>
              /\ sub_goals' = sub_goals
              /\ completed_outputs' = completed_outputs
              /\ round' = round
              /\ worker_results' = worker_results
              /\ final_response' = final_response
        /\ (pc = "route_after_planner" /\ last_decision.raised) =>
              /\ pc' = "END"
              /\ sends' = << >>
              /\ status' = "failed"
        /\ pc # "END"
      ]_vars

C35_Witness ==
    /\ pc = "END"
    /\ status = "failed"
    /\ planner_reasoning = << "F02: Unexpected error" >>
    /\ n_join >= 1
    /\ final_response = << >>
    /\ \E i \in 1..Len(sub_goals) : sub_goals[i].status = "pending"

\* C36: when a Join/Reduce batch holds a successful es_query_gen result for
\* sub-goal G and a successful es_query_exec result of a sub-goal with
\* params.bundles_with_sub_goal = G, the artifacts produced for the two are
\* exactly one: type es_query, sub_goal_id G, slots es_query from the gen
\* result and next_offset and page_size from the exec result; no artifact is
\* produced for a failed result.
WorkerOfResult(r) ==
    LET hits == { i \in 1..Len(sub_goals) : sub_goals[i].id = r.sub_goal_id }
    IN  IF hits = {} THEN None ELSE sub_goals[CHOOSE i \in hits : TRUE].worker

BundleOfResult(r) ==
    LET hits == { i \in 1..Len(sub_goals) : sub_goals[i].id = r.sub_goal_id }
    IN  IF hits = {} THEN 0
        ELSE DictGet(sub_goals[CHOOSE i \in hits : TRUE].params, "bundles_with_sub_goal", 0)

BundledPair(g, e) ==
    /\ g.status = "success" /\ WorkerOfResult(g) = "es_query_gen"
    /\ e.status = "success" /\ WorkerOfResult(e) = "es_query_exec"
    /\ BundleOfResult(e) = g.sub_goal_id

C36_SameBatchBundleGivesOneArtifact ==
    [][ pc = "f13_join_reduce" =>
          /\ \A a \in 1..Len(worker_results) : \A b \in 1..Len(worker_results) :
                BundledPair(worker_results[a], worker_results[b]) =>
                    LET g == worker_results[a]
                        e == worker_results[b]
                        arts == { k \in 1..Len(key_artifacts') :
                                    key_artifacts'[k].sub_goal_id \in { g.sub_goal_id, e.sub_goal_id } }
                    IN  /\ Cardinality(arts) = 1
                        /\ \A k \in arts :
                              /\ key_artifacts'[k].type = "es_query"
                              /\ key_artifacts'[k].sub_goal_id = g.sub_goal_id
                              /\ key_artifacts'[k].slots =
                                    [ es_query |-> g.outputs.es_query,
                                      next_offset |-> e.outputs.next_offset,
                                      page_size |-> e.outputs.page_size ]
          /\ \A k \in 1..Len(key_artifacts') :
                \E a \in 1..Len(worker_results) :
                    /\ worker_results[a].sub_goal_id = key_artifacts'[k].sub_goal_id
                    /\ worker_results[a].status = "success"
      ]_vars

\* C37: a sub-goal is dispatched at most once in a turn: the Router dispatches
\* only sub-goals that are pending and have never been given a result, each at
\* most once per fan-out; the Join/Reduce that processes a result leaves its
\* sub-goal non-pending with the result recorded, so it is not dispatched
\* again; a sub-goal created with status failed is never dispatched.
C37_SubGoalDispatchedAtMostOnce ==
    [][ /\ pc = "route_after_planner" =>
              /\ \A j \in 1..Len(sends') :
                    \E i \in 1..Len(sub_goals) :
                        /\ sub_goals[i].id = sends'[j].sub_goal.id
                        /\ sub_goals[i].status = "pending"
                        /\ sub_goals[i].result = NoDict
                        /\ sub_goals[i].error = NoError
              /\ \A j, k \in 1..Len(sends') :
                    sends'[j].sub_goal.id = sends'[k].sub_goal.id => j = k
        /\ pc = "f13_join_reduce" =>
              \A k \in 1..Len(worker_results) : \A i \in 1..Len(sub_goals') :
                  sub_goals'[i].id = worker_results[k].sub_goal_id =>
                      /\ sub_goals'[i].status # "pending"
                      /\ sub_goals'[i].result # NoDict
        /\ \A i \in 1..Len(sub_goals) :
              (sub_goals[i].status # "pending" /\ i <= Len(sub_goals')) =>
                  sub_goals'[i].status # "pending"
      ]_vars

C37_Witness ==
    /\ pc = "f03_worker_executor"
    /\ n_join >= 1
    /\ \E i \in 1..Len(sub_goals) :
          /\ sub_goals[i].status = "failed"
          /\ sub_goals[i].result # NoDict
          /\ \A j \in 1..Len(sends) : sends[j].sub_goal.id # sub_goals[i].id
    /\ \E i \in 1..Len(sub_goals) :
          /\ sub_goals[i].status = "failed"
          /\ sub_goals[i].result = NoDict

\* C38: worker_results is empty whenever the Normalizer, the Planner, the
\* Router or the Synthesizer is about to run and when the turn has ended; it
\* holds results only while executors of a fan-out are completing and until
\* the Join/Reduce that follows, and only results of sub-goals that were
\* pending when that round began.
C38_WorkerResultsEmptyOutsideFanOut ==
    /\ pc \in { "f01_reiterate", "f02_planner", "route_after_planner", "f14_synthesizer", "END" } =>
          worker_results = << >>
    /\ worker_results # << >> => pc \in { "f03_worker_executor", "f13_join_reduce" }
    /\ \A k \in 1..Len(worker_results) : \A i \in 1..Len(sub_goals) :
          sub_goals[i].id = worker_results[k].sub_goal_id =>
              sub_goals[i].status = "pending" /\ sub_goals[i].result = NoDict

C38_Witness ==
    /\ pc = "f14_synthesizer"
    /\ n_join >= 2
    /\ worker_results = << >>
    /\ Cardinality({ i \in 1..Len(sub_goals) : sub_goals[i].result # NoDict }) >= 2

\* C39: completed_outputs only grows within a turn.  Every step taken after
\* the Normalizer's (Planner, Router, Executor, Join/Reduce, Synthesizer)
\* keeps each key that is already present, with exactly the slots it had; so
\* the entry the Normalizer wrote under key 0 is still the same at the end
\* of the turn.
C39_CompletedOutputsOnlyGrows ==
    [][ pc # "f01_reiterate" =>
            \A k \in DOMAIN completed_outputs :
                /\ k \in DOMAIN completed_outputs'
                /\ completed_outputs'[k] = completed_outputs[k] ]_vars

\* a turn has ended with the Normalizer's entry and the outputs of two joined
\* sub-goals stored in two different rounds
C39_Witness ==
    /\ pc = "END"
    /\ n_join >= 2
    /\ 0 \in DOMAIN completed_outputs
    /\ Cardinality(DOMAIN completed_outputs) >= 3

\* C40: done and failed are terminal for the control loop.  Once the Planner
\* has returned failed the only step left is the Router's, to END.  The
\* Synthesizer is entered only by the Router, right after the Planner returned
\* done; its one step leaves status done with a non-empty final_response and
\* leads to END; and no component runs from END, so the Synthesizer runs at
\* most once in a turn.
C40_DoneAndFailedAreTerminal ==
    [][ /\ pc # "END"
        /\ status = "failed" => pc = "route_after_planner" /\ pc' = "END"
        /\ pc' = "f14_synthesizer" =>
              pc = "route_after_planner" /\ status = "done" /\ final_response = << >>
        /\ pc = "f14_synthesizer" =>
              /\ status = "done"
              /\ status' = "done"
              /\ final_response' # << >>
              /\ pc' = "END" ]_vars

\* a turn that planned and joined work has ended through the Synthesizer
C40_Witness ==
    /\ pc = "END"
    /\ status = "done"
    /\ final_response # << >>
    /\ n_planner >= 2
    /\ n_join >= 1

====
